---- MODULE Spec2Model ----
(***************************************************************************)
(* Region flood fill of ares-sc2 (cython_extensions/flood_fill.pyx):       *)
(* flood_fill_grid and the recursive helper grid_flood_fill, modelled as a *)
(* state machine with an explicit call stack.                              *)
(*                                                                         *)
(* Coordinates are C `unsigned int`: point[0]-1 on column 0 wraps around   *)
(* and the squared distance is computed modulo 2^w.  The compiled width is *)
(* w = 32; TLC's integers are 32-bit signed, so the model keeps the same   *)
(* modular arithmetic at the narrower width UIntBits.                      *)
(*                                                                         *)
(* A memoryview read outside the grid raises IndexError when the module is *)
(* compiled with bounds checking (Cython's default, flood_fill.pyx sets no *)
(* directive) and reads whatever byte lies there when the build disables   *)
(* it; both outcomes are kept (variable oob).                              *)
(***************************************************************************)
EXTENDS Integers, Sequences, FiniteSets, TLC

\* ---- bounds of the model ----
GridSize == 5
MaxDist == 2
MaxOdd == 1
MaxChoke == 1
UIntBits == 8

VARIABLES
  start_point,    \* (unsigned int, unsigned int) start_point
  terrain_grid,   \* const unsigned char[:, :] terrain_grid
  pathing_grid,   \* const unsigned char[:, :] pathing_grid
  max_distance,   \* unsigned int max_distance
  choke_points,   \* set choke_points
  filled_points,  \* the set filled_points / current_vec (one Python object)
  stack,          \* call frames of grid_flood_fill, innermost last
  status,         \* "init", "running", "done" (returned), "IndexError" (raised)
  oob,            \* what a read outside the grid yields: kind "unread" until
                  \* the first such read, then "IndexError" or "byte"
  first_region,   \* <<region>> returned by the previous call, <<>> if none
  worklist,       \* pending tiles of the reordered expansion
  order,          \* neighbour order of the reordered expansion
  discipline,     \* "none", "stack" or "queue"
  alt_points,     \* region built by the reordered expansion
  fbl_args,       \* arguments of find_building_locations
  to_convolve,    \* blocked mask over the bounds, indexed [x - x_min][y - y_min]
  result,         \* convolve2d(to_convolve, kernel, mode="valid")
  scan,           \* loop variables i, j of the scan over result
  found_this_many_on_y,
  blocked_y,      \* set blocked_y
  valid_spots,    \* slots of valid_spots written so far, in half tiles
  valid_idx,
  fbl_status,     \* "idle", "start", "scan", "returned", "ValueError", "overrun"
  emitted,        \* origins <<i, j>> of the candidates written to valid_spots
  cover_args,     \* arguments of cy_pylon_matrix_covers
  covers,         \* <<value>> returned by cy_pylon_matrix_covers, <<>> before
  covered_before, \* the previous call: how the pylons changed since, its value
  points_args,    \* arguments of the grid query
  points_result,  \* <<value>> returned by the grid query, <<>> before
  filter,         \* locals of cy_points_with_value: i, idx, valid_points
  coordinates,    \* the caller's set passed to cy_get_bounding_box
  given_coordinates, \* what that set held when the call was made
  bbox,           \* locals and result of cy_get_bounding_box
  units_args,     \* arguments of cy_closest_to / cy_pick_enemy_target
  units_result,   \* <<unit>> returned, <<>> before
  cps_args,       \* arguments of can_place_structure
  cps_result      \* <<value>> returned by can_place_structure, <<>> before

vars == <<start_point, terrain_grid, pathing_grid, max_distance, choke_points,
          filled_points, stack, status, oob, first_region, worklist, order,
          discipline, alt_points, fbl_args, to_convolve, result, scan,
          found_this_many_on_y, blocked_y, valid_spots, valid_idx, fbl_status,
          emitted, cover_args, covers, covered_before, points_args, points_result,
          filter, coordinates, given_coordinates, bbox, units_args, units_result, cps_args,
          cps_result>>

inputs == <<start_point, terrain_grid, max_distance, choke_points>>
altVars == <<worklist, order, discipline, alt_points>>
fillVars == <<start_point, terrain_grid, pathing_grid, max_distance, choke_points,
              filled_points, stack, status, oob, first_region, altVars>>
placeVars == <<fbl_args, to_convolve, result, scan, found_this_many_on_y, blocked_y,
               valid_spots, valid_idx, fbl_status, emitted>>
coverVars == <<cover_args, covers, covered_before>>
pointVars == <<points_args, points_result, filter>>
boxVars == <<coordinates, given_coordinates, bbox>>
unitVars == <<units_args, units_result>>
cpsVars == <<cps_args, cps_result>>
laterVars == <<boxVars, unitVars, cpsVars>>
otherVars == <<placeVars, coverVars, pointVars, laterVars>>

\* ---- unsigned int arithmetic ----
UIntMod == 2 ^ UIntBits

UAdd(a, b) == (a + b) % UIntMod

USub(a, b) == (a - b) % UIntMod

USquare(a) == (a * a) % UIntMod

\* slip: the coordinate differences are summed without being squared
euclidean_distance_int_unsquared(p1, p2) ==
  UAdd(USub(p1[1], p2[1]), USub(p1[2], p2[2]))

euclidean_distance_squared_int(p1, p2) ==
  UAdd(USquare(USub(p1[1], p2[1])), USquare(USub(p1[2], p2[2])))

\* ---- grids ----
Grid(w, h) == (0 .. w - 1) \X (0 .. h - 1)

InGrid(point) == point \in DOMAIN terrain_grid

TerrainClasses == {0, 1, 2}

\* terrain_grid[point[0], point[1]]; outside the grid the read yields oob
ReadTerrain(point, outside) ==
  IF InGrid(point) THEN terrain_grid[point] ELSE outside.byte

ReadPathing(point, outside) ==
  IF InGrid(point) THEN pathing_grid[point] ELSE outside.byte

Unread == [kind |-> "unread", byte |-> 0]

IndexError == [kind |-> "IndexError", byte |-> 0]

Byte(b) == [kind |-> "byte", byte |-> b]

\* outcomes of a read outside the grid, fixed by the first such read
OobOutcomes ==
  IF oob = Unread THEN {IndexError} \cup {Byte(b) : b \in TerrainClasses} ELSE {oob}

\* ---- the guards of grid_flood_fill ----
\* slip: the start counts as added from the outset
AlreadyAdded_or_start(point) == point \in filled_points \/ point = start_point

AlreadyAdded(point) == point \in filled_points

\* slip: >= instead of >, tiles at exactly max_distance are cut off
TooFar_inclusive(point) ==
  euclidean_distance_squared_int(point, start_point) >= USquare(max_distance)

TooFar(point) ==
  euclidean_distance_squared_int(point, start_point) > USquare(max_distance)

\* slip: the chokepoint test is lost
IsChokePoint_ignored(point) == point \in {}

IsChokePoint(point) == point \in choke_points

\* the disabled policy: the pathing cell must be walkable as well
HeightMismatch_or_unpathable(terrain_height, pathing_value, target_val) ==
  terrain_height # target_val \/ pathing_value = 0

HeightMismatch(terrain_height, pathing_value, target_val) ==
  terrain_height # target_val

\* slip: the early return for a zero height never fires
NoHeight_never(terrain_height) == terrain_height < 0

NoHeight(terrain_height) == terrain_height = 0

\* slip: line 62 is a copy of line 61, the fill never steps to y-1
Neighbour_copied_line(point, k) ==
  CASE k = 1 -> <<UAdd(point[1], 1), point[2]>>
    [] k = 2 -> <<USub(point[1], 1), point[2]>>
    [] k = 3 -> <<point[1], UAdd(point[2], 1)>>
    [] k = 4 -> <<point[1], UAdd(point[2], 1)>>

\* argument of the k-th recursive call (lines 59..62)
Neighbour(point, k) ==
  CASE k = 1 -> <<UAdd(point[1], 1), point[2]>>
    [] k = 2 -> <<USub(point[1], 1), point[2]>>
    [] k = 3 -> <<point[1], UAdd(point[2], 1)>>
    [] k = 4 -> <<point[1], USub(point[2], 1)>>

Frame(point, target_val) == [point |-> point, target_val |-> target_val, pc |-> 0]

Top == stack[Len(stack)]

Pop == SubSeq(stack, 1, Len(stack) - 1)

SetTopPc(k) == [stack EXCEPT ![Len(stack)].pc = k]

\* ---- inputs ----
Tiles == Grid(GridSize, GridSize)

Centre == GridSize \div 2

\* the centre, the corner at the origin and the middles of two edges
Starts == {<<Centre, Centre>>, <<0, 0>>, <<0, Centre>>, <<GridSize - 1, Centre>>}

PlaneDistSq(p, q) == (p[1] - q[1]) * (p[1] - q[1]) + (p[2] - q[2]) * (p[2] - q[2])

\* the tiles that decide which way a fill can leave s: s and the in-grid
\* tiles next to it
Cross(s) == {p \in Tiles : PlaneDistSq(p, s) <= 1}

\* the subsets of S with at most n elements
RECURSIVE SmallSubsets(_, _)
SmallSubsets(S, n) ==
  IF n = 0 THEN {{}}
  ELSE LET P == SmallSubsets(S, n - 1) IN P \cup {T \cup {x} : T \in P, x \in S}

\* pathing grids over the tiles D: all walkable, every other tile walkable
\* (start parity included or not is up to D), none walkable
Pathable(D) == [p \in D |-> 1]

Checkerboard(D) == [p \in D |-> (p[1] + p[2] + 1) % 2]

Unpathable(D) == [p \in D |-> 0]

\* ---- the other entry points are not called during a flood fill ----
NoArray == [shape |-> <<0, 0>>, at |-> <<>>]

PlaceIdle ==
  /\ fbl_args = <<>>
  /\ to_convolve = NoArray
  /\ result = NoArray
  /\ scan = [i |-> 0, j |-> 0]
  /\ found_this_many_on_y = 0
  /\ blocked_y = {}
  /\ valid_spots = <<>>
  /\ valid_idx = 0
  /\ fbl_status = "idle"
  /\ emitted = <<>>

CoverIdle ==
  /\ cover_args = <<>>
  /\ covers = <<>>
  /\ covered_before = <<>>

PointsIdle ==
  /\ points_args = <<>>
  /\ points_result = <<>>
  /\ filter = <<>>

BoxIdle ==
  /\ coordinates = {}
  /\ given_coordinates = {}
  /\ bbox = <<>>

UnitsIdle ==
  /\ units_args = <<>>
  /\ units_result = <<>>

CpsIdle ==
  /\ cps_args = <<>>
  /\ cps_result = <<>>

LaterIdle == BoxIdle /\ UnitsIdle /\ CpsIdle

FillIdle ==
  /\ start_point = <<0, 0>>
  /\ terrain_grid = <<>>
  /\ pathing_grid = <<>>
  /\ max_distance = 0
  /\ choke_points = {}
  /\ filled_points = {}
  /\ stack = <<>>
  /\ status = "idle"
  /\ oob = Unread
  /\ first_region = <<>>
  /\ worklist = <<>>
  /\ order = <<>>
  /\ discipline = "none"
  /\ alt_points = {}

FamilyInit ==
  /\ start_point \in Starts
  /\ max_distance \in 0 .. MaxDist
  /\ \E odd \in SmallSubsets(Cross(start_point), MaxOdd), c \in {0, 2} :
       terrain_grid = [p \in Tiles |-> IF p \in odd THEN c ELSE 1]
  /\ choke_points \in SmallSubsets(Cross(start_point), MaxChoke)
  /\ pathing_grid = Checkerboard(Tiles)

\* the 10x10 scenario: one terrain class, fully pathable, no chokepoints
ScenarioInit ==
  /\ start_point = <<5, 5>>
  /\ max_distance = 3
  /\ terrain_grid = [p \in Grid(10, 10) |-> 1]
  /\ pathing_grid = [p \in Grid(10, 10) |-> 1]
  /\ choke_points = {}

Init ==
  /\ FamilyInit \/ ScenarioInit
  /\ filled_points = {}
  /\ stack = <<>>
  /\ status = "init"
  /\ oob = Unread
  /\ first_region = <<>>
  /\ worklist = <<>>
  /\ order = <<>>
  /\ discipline = "none"
  /\ alt_points = {}
  /\ PlaceIdle
  /\ CoverIdle
  /\ PointsIdle
  /\ LaterIdle

\* ---- flood_fill_grid: lines 15-27 ----
flood_fill_grid ==
  /\ status = "init"
  /\ LET terrain_height == terrain_grid[start_point]
     IN IF NoHeight(terrain_height)
        THEN /\ status' = "done"
             /\ stack' = stack
        ELSE /\ status' = "running"
             /\ stack' = <<Frame(start_point, terrain_height)>>
  /\ UNCHANGED <<start_point, terrain_grid, pathing_grid, max_distance,
                 choke_points, filled_points, oob, first_region, altVars, otherVars>>

\* ---- grid_flood_fill: lines 43-58, entry of one call ----
grid_flood_fill ==
  /\ status = "running"
  /\ stack # <<>>
  /\ Top.pc = 0
  /\ LET point == Top.point
         target_val == Top.target_val
     IN IF AlreadyAdded(point) \/ TooFar(point) \/ IsChokePoint(point)
        THEN /\ stack' = Pop
             /\ UNCHANGED <<filled_points, status, oob>>
        ELSE \E outside \in (IF InGrid(point) THEN {oob} ELSE OobOutcomes) :
               /\ oob' = outside
               /\ IF outside = IndexError
                  THEN /\ status' = "IndexError"
                       /\ stack' = <<>>
                       /\ UNCHANGED filled_points
                  ELSE LET terrain_height == ReadTerrain(point, outside)
                           pathing_value == ReadPathing(point, outside)
                       IN IF HeightMismatch(terrain_height, pathing_value, target_val)
                          THEN /\ stack' = Pop
                               /\ UNCHANGED <<filled_points, status>>
                          ELSE /\ filled_points' = filled_points \cup {point}
                               /\ stack' = SetTopPc(1)
                               /\ UNCHANGED status
  /\ UNCHANGED <<start_point, terrain_grid, pathing_grid, max_distance,
                 choke_points, first_region, altVars, otherVars>>

\* ---- grid_flood_fill: lines 59-62, the next recursive call ----
Recurse ==
  /\ status = "running"
  /\ stack # <<>>
  /\ Top.pc \in 1 .. 4
  /\ stack' = Append(SetTopPc(Top.pc + 1),
                     Frame(Neighbour(Top.point, Top.pc), Top.target_val))
  /\ UNCHANGED <<start_point, terrain_grid, pathing_grid, max_distance,
                 choke_points, filled_points, status, oob, first_region, altVars, otherVars>>

\* ---- grid_flood_fill: falls off the end after line 62 ----
Return ==
  /\ status = "running"
  /\ stack # <<>>
  /\ Top.pc = 5
  /\ stack' = Pop
  /\ UNCHANGED <<start_point, terrain_grid, pathing_grid, max_distance,
                 choke_points, filled_points, status, oob, first_region, altVars, otherVars>>

\* ---- flood_fill_grid: line 28, return filled_points ----
ReturnFilled ==
  /\ status = "running"
  /\ stack = <<>>
  /\ status' = "done"
  /\ UNCHANGED <<start_point, terrain_grid, pathing_grid, max_distance,
                 choke_points, filled_points, stack, oob, first_region, altVars, otherVars>>

Next ==
  \/ flood_fill_grid
  \/ grid_flood_fill
  \/ Recurse
  \/ Return
  \/ ReturnFilled

Spec == Init /\ [][Next]_vars

\* a call that has started keeps running: nothing suspends the recursion
FairSpec == Spec /\ WF_vars(Next)

\* ---- a second call that differs only in pathing_grid ----
CallAgain ==
  /\ status = "done"
  /\ first_region = <<>>
  /\ first_region' = <<filled_points>>
  /\ pathing_grid' \in {Pathable(DOMAIN terrain_grid), Checkerboard(DOMAIN terrain_grid),
                        Unpathable(DOMAIN terrain_grid)} \ {pathing_grid}
  /\ filled_points' = {}
  /\ stack' = <<>>
  /\ status' = "init"
  /\ UNCHANGED <<start_point, terrain_grid, max_distance, choke_points, oob, altVars, otherVars>>

SpecPathing == Init /\ [][Next \/ CallAgain]_vars

\* ---- the same expansion in another order, from a stack or a queue ----
Offsets == <<<<1, 0>>, <<-1, 0>>, <<0, 1>>, <<0, -1>>>>

Shift(p, d) == <<(p[1] + d[1]) % UIntMod, (p[2] + d[2]) % UIntMod>>

Orders == {<<1, 2, 3, 4>>, <<4, 3, 2, 1>>, <<3, 1, 4, 2>>, <<2, 4, 1, 3>>}

StartReordered ==
  /\ status = "done"
  /\ discipline = "none"
  /\ discipline' \in {"stack", "queue"}
  /\ order' \in Orders
  /\ worklist' = IF NoHeight(terrain_grid[start_point]) THEN <<>> ELSE <<start_point>>
  /\ alt_points' = {}
  /\ UNCHANGED <<start_point, terrain_grid, pathing_grid, max_distance, choke_points,
                 filled_points, stack, status, oob, first_region, otherVars>>

ExpandReordered ==
  /\ discipline # "none"
  /\ worklist # <<>>
  /\ LET n == Len(worklist)
         point == IF discipline = "stack" THEN worklist[n] ELSE worklist[1]
         rest == IF discipline = "stack" THEN SubSeq(worklist, 1, n - 1)
                 ELSE SubSeq(worklist, 2, n)
         target_val == terrain_grid[start_point]
     IN IF \/ point \in alt_points
           \/ TooFar(point)
           \/ IsChokePoint(point)
           \/ HeightMismatch(ReadTerrain(point, oob), ReadPathing(point, oob), target_val)
        THEN /\ worklist' = rest
             /\ UNCHANGED alt_points
        ELSE /\ alt_points' = alt_points \cup {point}
             /\ worklist' = rest \o [k \in 1 .. 4 |->
                                      Shift(point, Offsets[order[
                                        IF discipline = "stack" THEN 5 - k ELSE k]])]
  /\ UNCHANGED <<start_point, terrain_grid, pathing_grid, max_distance, choke_points,
                 filled_points, stack, status, oob, first_region, order, discipline,
                 otherVars>>

SpecOrder == Init /\ [][Next \/ StartReordered \/ ExpandReordered]_vars

TypeOK ==
  /\ status \in {"init", "running", "done", "IndexError"}
  /\ oob \in {Unread, IndexError} \cup {Byte(b) : b \in TerrainClasses}

\* ---- vocabulary of the properties: the integer plane ----
PlaneAdjacent(p, q) ==
  \/ p[1] = q[1] /\ (p[2] = q[2] + 1 \/ q[2] = p[2] + 1)
  \/ p[2] = q[2] /\ (p[1] = q[1] + 1 \/ q[1] = p[1] + 1)

\* tiles of R linked to a tile of C by 4-adjacent steps inside R
RECURSIVE Closure(_, _)
Closure(C, R) ==
  LET N == {t \in R \ C : \E c \in C : PlaneAdjacent(t, c)}
  IN IF N = {} THEN C ELSE Closure(C \cup N, R)

Disc ==
  {p \in (start_point[1] - max_distance .. start_point[1] + max_distance)
         \X (start_point[2] - max_distance .. start_point[2] + max_distance) :
     PlaneDistSq(p, start_point) <= max_distance * max_distance}

DiscInGrid == Disc \subseteq DOMAIN terrain_grid

Admissible(t) ==
  /\ t \in DOMAIN terrain_grid
  /\ terrain_grid[t] = terrain_grid[start_point]
  /\ t \notin choke_points
  /\ PlaneDistSq(t, start_point) <= max_distance * max_distance

AdmissibleTiles == {t \in DOMAIN terrain_grid : Admissible(t)}

ReachableAdmissible ==
  IF Admissible(start_point) THEN Closure({start_point}, AdmissibleTiles) ELSE {}

Returned == status = "done"

\* C1: for an in-grid start of non-zero terrain class whose distance disc
\* lies inside the grid, the returned region is exactly the set of tiles
\* linked to start by a path of 4-adjacent tiles that all have start's
\* terrain class, are no chokepoints and lie within max_distance of start.
C1_ExactReachableSet ==
  (Returned /\ terrain_grid[start_point] # 0 /\ DiscInGrid)
    => filled_points = ReachableAdmissible

\* a returned region that went two steps deep and left out an admissible
\* tile that no admissible path reaches
C1_Witness ==
  /\ Returned /\ terrain_grid[start_point] # 0 /\ DiscInGrid
  /\ \E t \in filled_points : PlaneDistSq(t, start_point) >= 4
  /\ \E t \in AdmissibleTiles : t \notin filled_points

WrapAdjacent(p, q) ==
  \/ p[2] = q[2] /\ (p[1] - q[1]) % UIntMod \in {1, UIntMod - 1}
  \/ p[1] = q[1] /\ (p[2] - q[2]) % UIntMod \in {1, UIntMod - 1}

\* C together with the tiles of R linked to the frontier F by adjacent steps
RECURSIVE WrapGrow(_, _, _)
WrapGrow(F, C, R) ==
  LET N == {t \in R \ C : \E f \in F : WrapAdjacent(t, f)}
  IN IF N = {} THEN C ELSE WrapGrow(N, C \cup N, R)

WrapClosure(C, R) == WrapGrow(C, C, R)

\* the coordinates a fill can name: the box around start, unsigned
Box ==
  {<<(start_point[1] + dx) % UIntMod, (start_point[2] + dy) % UIntMod>> :
     dx \in -max_distance .. max_distance, dy \in -max_distance .. max_distance}

\* terrain and distance admit the tile (chokepoints left aside)
Open(t) ==
  /\ (IF t \in DOMAIN terrain_grid THEN terrain_grid[t] ELSE oob.byte)
       = terrain_grid[start_point]
  /\ (((t[1] - start_point[1]) % UIntMod) * ((t[1] - start_point[1]) % UIntMod)
      + ((t[2] - start_point[2]) % UIntMod) * ((t[2] - start_point[2]) % UIntMod))
       % UIntMod <= (max_distance * max_distance) % UIntMod

OpenTiles == {t \in Box : Open(t)}

\* C4: no chokepoint is ever in the region, no call expands from a
\* chokepoint, and every tile of the returned region is linked to start
\* through open tiles that are no chokepoints (nothing is reached across
\* one).
C4_ChokepointExclusion ==
  /\ filled_points \cap choke_points = {}
  /\ \A i \in 1 .. Len(stack) : stack[i].pc >= 1 => stack[i].point \notin choke_points
  /\ Returned =>
       filled_points \subseteq
         WrapClosure({start_point} \ choke_points, OpenTiles \ choke_points)

\* a returned region next to a chokepoint behind which an open tile,
\* linked to start only across chokepoints, was left out
C4_Witness ==
  /\ Returned /\ filled_points # {}
  /\ \E c \in choke_points : \E t \in filled_points : PlaneAdjacent(c, t)
  /\ \E t \in WrapClosure({start_point}, OpenTiles) :
       t \notin choke_points /\ t \notin filled_points

IsScenario ==
  /\ start_point = <<5, 5>>
  /\ max_distance = 3
  /\ terrain_grid = [p \in Grid(10, 10) |-> 1]
  /\ pathing_grid = [p \in Grid(10, 10) |-> 1]
  /\ choke_points = {}

\* C5 as stated: in the 10x10 scenario the returned region is the set of
\* tiles within Manhattan distance 3 of (5,5), and it has 29 tiles.
C5_ManhattanDisc ==
  (IsScenario /\ Returned) =>
    /\ filled_points =
         {t \in DOMAIN terrain_grid :
            (IF t[1] >= 5 THEN t[1] - 5 ELSE 5 - t[1])
            + (IF t[2] >= 5 THEN t[2] - 5 ELSE 5 - t[2]) <= 3}
    /\ Cardinality(filled_points) = 29

\* C5 amended: in the 10x10 scenario the returned region is the set of
\* tiles with dx^2 + dy^2 <= 9 around (5,5) (the Euclidean disc of radius
\* 3, which contains the diagonal tiles (5+-2, 5+-2)), and it has 29 tiles.
C5_EuclideanDisc ==
  (IsScenario /\ Returned) =>
    /\ filled_points = {t \in DOMAIN terrain_grid : PlaneDistSq(t, <<5, 5>>) <= 9}
    /\ Cardinality(filled_points) = 29

C5_Witness == IsScenario /\ Returned /\ <<7, 7>> \in filled_points

\* C6: no cell outside the grid is ever read and the region stays inside
\* the grid, also when the distance disc reaches past a grid edge.
C6_NoOutOfGridAccess ==
  /\ oob = Unread
  /\ filled_points \subseteq DOMAIN terrain_grid

\* C7: every call terminates by returning a region (each step of the
\* recursion returns without change or grows the visited set).
C7_ReturnsARegion == <>Returned

\* C8: expanding the tiles in another neighbour order, depth first from a
\* stack or breadth first from a queue, ends with the same region as the
\* recursion in the order +x, -x, +y, -y.
C8_OrderIndependent ==
  (discipline # "none" /\ worklist = <<>>) => alt_points = filled_points

\* a breadth-first run in another order that filled five tiles or more
C8_Witness ==
  /\ discipline = "queue" /\ worklist = <<>>
  /\ order # <<1, 2, 3, 4>>
  /\ Cardinality(alt_points) >= 5
  /\ \E t \in OpenTiles : t \notin alt_points

\* C9: a second call that differs only in pathing_grid returns the same
\* region, and a returned region is closed under 4-adjacent open tiles
\* that are no chokepoints, whatever their pathing value.
C9_PathingIndependent ==
  Returned =>
    /\ first_region # <<>> => filled_points = first_region[1]
    /\ \A t \in filled_points : \A n \in OpenTiles \ choke_points :
         WrapAdjacent(t, n) => n \in filled_points

\* a second call on a grid without a walkable tile returned several tiles
C9_Witness ==
  /\ Returned /\ first_region # <<>>
  /\ \A p \in DOMAIN pathing_grid : pathing_grid[p] = 0
  /\ Cardinality(filled_points) >= 3

\* C10: when the terrain class at start is 0 the call returns the empty
\* region and no call of grid_flood_fill is ever made.
C10_ZeroTerrainEmpty ==
  terrain_grid[start_point] = 0 =>
    /\ filled_points = {}
    /\ stack = <<>>
    /\ status \in {"init", "done"}
    /\ oob = Unread

C10_Witness ==
  /\ terrain_grid[start_point] = 0 /\ Returned
  /\ max_distance > 0
  /\ filled_points = {}

(***************************************************************************)
(* Building placement search (placement_solver: find_building_locations).  *)
(* A 2D array is a record of its shape and its cells; the grids of the map *)
(* are read as grid[y][x], the mask and the convolution as [x][y].         *)
(* valid_spots holds C floats with halves: the model keeps them in half    *)
(* tiles (twice the coordinate), so half_width = building_width / 2 is the *)
(* integer building_width.                                                 *)
(***************************************************************************)
\* ---- bounds of the placement inputs ----
AreaW == 3
AreaH == 5
MaxBlocked == 1

\* (float, float) [500] valid_spots
ValidSpotsSlots == 500

Array(w, h, cells) == [shape |-> <<w, h>>, at |-> [p \in Grid(w, h) |-> cells[p]]]

Ones(w, h) == Array(w, h, [p \in Grid(w, h) |-> 1])

x_min == fbl_args.x_bounds[1]

x_max == fbl_args.x_bounds[2]

y_min == fbl_args.y_bounds[1]

y_max == fbl_args.y_bounds[2]

\* float half_width = building_width / 2, in half tiles
half_width == fbl_args.building_width

creep_check == IF fbl_args.avoid_creep THEN 0 ELSE 1

\* the test of line 86 on the tile of column x, row y
Unblocked(x, y) ==
  /\ fbl_args.points_to_avoid_grid[<<x, y>>] = 0
  /\ fbl_args.creep_grid[<<x, y>>] = creep_check
  /\ fbl_args.placement_grid[<<x, y>>] = 1
  /\ fbl_args.pathing_grid[<<x, y>>] = 1

\* lines 73 and 83-87: np.ones(...), then 0 on every unblocked tile of the bounds
BlockedMask ==
  LET w == x_max - x_min + 1
      h == y_max - y_min + 1
  IN Array(w, h, [p \in Grid(w, h) |->
                    IF Unblocked(p[1] + x_min, p[2] + y_min) THEN 0 ELSE 1])

\* scipy.signal: "valid" needs one input at least as large as the other in
\* every dimension, and raises ValueError otherwise
ValidModeFits(in1, in2) ==
  \/ in1.shape[1] >= in2.shape[1] /\ in1.shape[2] >= in2.shape[2]
  \/ in2.shape[1] >= in1.shape[1] /\ in2.shape[2] >= in1.shape[2]

\* scipy.signal._inputs_swap_needed: the larger input is slid over
InputsSwapNeeded(in1, in2) ==
  ~(in1.shape[1] >= in2.shape[1] /\ in1.shape[2] >= in2.shape[2])

\* the products of one window, cell k of the smaller input onwards
RECURSIVE WindowSum(_, _, _, _)
WindowSum(big, small, p, k) ==
  IF k = small.shape[1] * small.shape[2] THEN 0
  ELSE LET a == k \div small.shape[2]
           b == k % small.shape[2]
       IN big.at[<<p[1] + a, p[2] + b>>]
            * small.at[<<small.shape[1] - 1 - a, small.shape[2] - 1 - b>>]
          + WindowSum(big, small, p, k + 1)

\* convolve2d(in1, in2, mode="valid") on uint8 arrays
convolve2d(in1, in2) ==
  LET swap == InputsSwapNeeded(in1, in2)
      big == IF swap THEN in2 ELSE in1
      small == IF swap THEN in1 ELSE in2
      w == big.shape[1] - small.shape[1] + 1
      h == big.shape[2] - small.shape[2] + 1
  IN Array(w, h, [p \in Grid(w, h) |-> WindowSum(big, small, p, 0) % 256])

\* slip: a withheld offset is forgotten
Skipped_never(j) == FALSE

\* line 94: if j in blocked_y: continue
Skipped(j) == j \in blocked_y

\* slip: no candidate is ever withheld
Withheld_never(j, found) == FALSE

\* line 99: every 4th accepted window of a scan line, except at j = 0
Withheld(j, found) == j > 0 /\ found % 4 = 0

\* slip: the scan visits every row
NextRow_every(j) == j + 1

\* line 92: range(0, result.shape[1], y_stride)
NextRow(j) == j + fbl_args.y_stride

\* slip: the scan visits every column
NextColumn_every(i) == i + 1

\* line 90: range(0, result.shape[0], x_stride)
NextColumn(i) == i + fbl_args.x_stride

\* lines 103-104: the centre of the window of origin (i, j), in half tiles
Center(i, j) == <<2 * (i + x_min) + half_width, 2 * (j + y_min) + half_width>>

\* ---- the inputs: a map with an unbuildable rim around the search area ----
Map == Grid(AreaW + 2, AreaH + 2)

Footprints == {<<1, 1>>, <<2, 2>>, <<1, 3>>, <<2, 1>>}

Strides == {1, 2}

Area(xb, yb) == (xb[1] .. xb[2]) \X (yb[1] .. yb[2])

\* the tiles that the inputs may block: the first two columns of the bounds
Blockable(xb, yb) == {t \in Area(xb, yb) : t[1] <= xb[1] + 1}

\* which grid blocks a blocked tile
Blocker(t) == (t[1] + t[2]) % 4

PlaceFamily ==
  \E fp \in Footprints, xs \in Strides, ys \in Strides, ac \in BOOLEAN,
        xb \in {<<1, 1>>, <<1, AreaW>>}, yb \in {<<1, 1>>, <<1, AreaH>>} :
       \E blocked \in SmallSubsets(Blockable(xb, yb), MaxBlocked) :
         fbl_args =
           [kernel |-> Ones(fp[1], fp[2]),
            x_stride |-> xs,
            y_stride |-> ys,
            x_bounds |-> xb,
            y_bounds |-> yb,
            creep_grid |->
              [t \in Map |-> IF t \in Area(xb, yb)
                             THEN IF t \in blocked /\ Blocker(t) = 1
                                  THEN (IF ac THEN 1 ELSE 0)
                                  ELSE (IF ac THEN 0 ELSE 1)
                             ELSE 0],
            placement_grid |->
              [t \in Map |-> IF t \in Area(xb, yb) /\ ~(t \in blocked /\ Blocker(t) = 2)
                             THEN 1 ELSE 0],
            pathing_grid |->
              [t \in Map |-> IF t \in blocked /\ Blocker(t) = 3 THEN 0 ELSE 1],
            points_to_avoid_grid |->
              [t \in Map |-> IF t \in blocked /\ Blocker(t) = 0 THEN 1 ELSE 0],
            building_width |-> fp[1],
            building_height |-> fp[2],
            avoid_creep |-> ac]

\* the 6x6 scenario: every tile clear, 2x2 footprint, both strides 1
PlaceScenario ==
  fbl_args =
    [kernel |-> Ones(2, 2),
     x_stride |-> 1,
     y_stride |-> 1,
     x_bounds |-> <<0, 5>>,
     y_bounds |-> <<0, 5>>,
     creep_grid |-> [t \in Grid(6, 6) |-> 0],
     placement_grid |-> [t \in Grid(6, 6) |-> 1],
     pathing_grid |-> [t \in Grid(6, 6) |-> 1],
     points_to_avoid_grid |-> [t \in Grid(6, 6) |-> 0],
     building_width |-> 2,
     building_height |-> 2,
     avoid_creep |-> TRUE]

PlaceInit ==
  /\ PlaceFamily \/ PlaceScenario
  /\ to_convolve = NoArray
  /\ result = NoArray
  /\ scan = [i |-> 0, j |-> 0]
  /\ found_this_many_on_y = 0
  /\ blocked_y = {}
  /\ valid_spots = <<>>
  /\ valid_idx = 0
  /\ fbl_status = "start"
  /\ emitted = <<>>
  /\ FillIdle
  /\ CoverIdle
  /\ PointsIdle
  /\ LaterIdle

\* ---- lines 69-88: the mask and its convolution ----
BuildMask ==
  /\ fbl_status = "start"
  /\ to_convolve' = BlockedMask
  /\ IF ValidModeFits(BlockedMask, fbl_args.kernel)
     THEN /\ result' = convolve2d(BlockedMask, fbl_args.kernel)
          /\ fbl_status' = "scan"
     ELSE /\ result' = result
          /\ fbl_status' = "ValueError"
  /\ UNCHANGED <<fbl_args, scan, found_this_many_on_y, blocked_y, valid_spots,
                 valid_idx, emitted, fillVars, coverVars, pointVars, laterVars>>

\* ---- lines 90-109: one pass of the inner loop, at result[i][j] ----
ScanWindow ==
  /\ fbl_status = "scan"
  /\ scan.i < result.shape[1]
  /\ LET i == scan.i
         j == scan.j
         accepted == result.at[<<i, j>>] = 0 /\ ~Skipped(j)
         found == found_this_many_on_y + 1
         withheld == accepted /\ Withheld(j, found)
         last == NextRow(j) >= result.shape[2]
     IN /\ scan' = IF last THEN [i |-> NextColumn(i), j |-> 0]
                   ELSE [i |-> i, j |-> NextRow(j)]
        /\ found_this_many_on_y' = IF last THEN 0
                                   ELSE IF accepted THEN found
                                   ELSE found_this_many_on_y
        /\ blocked_y' = IF withheld THEN blocked_y \cup {j} ELSE blocked_y
        /\ IF accepted /\ ~withheld
           THEN IF valid_idx < ValidSpotsSlots
                THEN /\ valid_spots' = Append(valid_spots, Center(i, j))
                     /\ emitted' = Append(emitted, <<i, j>>)
                     /\ valid_idx' = valid_idx + 1
                     /\ UNCHANGED fbl_status
                ELSE \* a write past the last slot: the process dies, or goes
                     \* on with memory outside the array overwritten
                     /\ fbl_status' \in {"overrun", "scan"}
                     /\ valid_idx' = valid_idx + 1
                     /\ UNCHANGED <<valid_spots, emitted>>
           ELSE UNCHANGED <<valid_spots, emitted, valid_idx, fbl_status>>
  /\ UNCHANGED <<fbl_args, to_convolve, result, fillVars, coverVars, pointVars, laterVars>>

\* ---- lines 111-114: return [] or list(valid_spots)[:valid_idx] ----
ReturnSpots ==
  /\ fbl_status = "scan"
  /\ scan.i >= result.shape[1]
  /\ fbl_status' = "returned"
  /\ UNCHANGED <<fbl_args, to_convolve, result, scan, found_this_many_on_y,
                 blocked_y, valid_spots, valid_idx, emitted, fillVars, coverVars,
                 pointVars, laterVars>>

PlaceNext ==
  \/ BuildMask
  \/ ScanWindow
  \/ ReturnSpots

SpecPlace == PlaceInit /\ [][PlaceNext]_vars

\* ---- vocabulary of the placement properties ----
PlaceReturned == fbl_status = "returned"

\* the list handed back to the caller
ReturnedSpots == valid_spots

\* the tiles that the building_width x building_height footprint centred at c
\* (half tiles) lies on
FootprintTiles(c) ==
  {t \in (0 .. AreaW + 3) \X (0 .. AreaH + 3) :
     /\ 2 * t[1] < c[1] + fbl_args.building_width
     /\ 2 * t[1] + 2 > c[1] - fbl_args.building_width
     /\ 2 * t[2] < c[2] + fbl_args.building_height
     /\ 2 * t[2] + 2 > c[2] - fbl_args.building_height}

\* the tiles of the window whose top-left origin is at offset (i, j)
WindowTiles(i, j) ==
  (x_min + i .. x_min + i + fbl_args.building_width - 1)
    \X (y_min + j .. y_min + j + fbl_args.building_height - 1)

Clear(t) ==
  /\ t \in DOMAIN fbl_args.placement_grid
  /\ fbl_args.points_to_avoid_grid[t] = 0
  /\ fbl_args.placement_grid[t] = 1
  /\ fbl_args.pathing_grid[t] = 1
  /\ fbl_args.creep_grid[t] = (IF fbl_args.avoid_creep THEN 0 ELSE 1)

\* a window inside the bounds, every tile of it clear
Qualifies(i, j) ==
  /\ WindowTiles(i, j) \subseteq Area(fbl_args.x_bounds, fbl_args.y_bounds)
  /\ \A t \in WindowTiles(i, j) : Clear(t)

\* the offsets that the stride grid visits
StrideColumns == {i \in 0 .. AreaW + 1 : i % fbl_args.x_stride = 0}

StrideRows == {j \in 0 .. AreaH + 1 : j % fbl_args.y_stride = 0}

Emitted == {emitted[k] : k \in 1 .. Len(emitted)}

\* two footprints centred at c and d (half tiles) cover common ground
Overlap(c, d) ==
  /\ c[1] - d[1] < 2 * fbl_args.building_width
  /\ d[1] - c[1] < 2 * fbl_args.building_width
  /\ c[2] - d[2] < 2 * fbl_args.building_height
  /\ d[2] - c[2] < 2 * fbl_args.building_height

\* the qualifying windows of scan line i, in stride order
QualifyingRows(i) == {j \in StrideRows : Qualifies(i, j)}

\* the run of (up to) four consecutive qualifying windows of line i that starts at a
RunFrom(i, a) ==
  {j \in QualifyingRows(i) :
     j >= a /\ Cardinality({k \in QualifyingRows(i) : a <= k /\ k < j}) < 4}

\* C11: every tile under the building_width x building_height footprint
\* centred at a returned point is clear in the four grids (no avoidance, buildable,
\* walkable, creep as avoid_creep asks).
C11_PlacementValidity ==
  PlaceReturned =>
    \A k \in 1 .. Len(ReturnedSpots) :
      \A t \in FootprintTiles(ReturnedSpots[k]) : Clear(t)

\* C12 as stated: whatever the strides, the footprints of two distinct
\* returned points never overlap.
C12_NonOverlap ==
  \A k, l \in 1 .. Len(ReturnedSpots) :
    k # l => ~Overlap(ReturnedSpots[k], ReturnedSpots[l])

\* C12 amended: when x_stride >= building_width and y_stride >= building_height,
\* the footprints of two distinct returned points never overlap.
C12_NonOverlapWideStride ==
  (fbl_args.x_stride >= fbl_args.building_width
     /\ fbl_args.y_stride >= fbl_args.building_height)
    => \A k, l \in 1 .. Len(ReturnedSpots) :
         k # l => ~Overlap(ReturnedSpots[k], ReturnedSpots[l])

C12_Witness ==
  /\ PlaceReturned
  /\ fbl_args.building_width = 2
  /\ fbl_args.building_height = 2
  /\ fbl_args.x_stride = 2
  /\ fbl_args.y_stride = 2
  /\ Len(ReturnedSpots) >= 2

\* C13: on one scan line, no four consecutive qualifying stride-sampled
\* windows are all emitted.
C13_GapProperty ==
  PlaceReturned =>
    \A i \in StrideColumns :
      \A a \in QualifyingRows(i) :
        Cardinality(RunFrom(i, a)) = 4 =>
          \E j \in RunFrom(i, a) : <<i, j>> \notin Emitted

C13_Witness ==
  /\ PlaceReturned
  /\ \E i \in StrideColumns :
       \E a \in QualifyingRows(i) :
         /\ Cardinality(RunFrom(i, a)) = 4
         /\ Cardinality({j \in RunFrom(i, a) : <<i, j>> \in Emitted}) = 3
  /\ blocked_y # {}

\* C14: every returned point is the origin of its window plus half the
\* footprint in each axis: (x_min + i + building_width/2, y_min + j + building_height/2).
C14_CenterConversion ==
  \A k \in 1 .. Len(ReturnedSpots) :
    ReturnedSpots[k] = <<2 * (x_min + emitted[k][1]) + fbl_args.building_width,
                         2 * (y_min + emitted[k][2]) + fbl_args.building_height>>

\* C15: the origin of every emitted window is offset from (x_min, y_min) by
\* a multiple of x_stride in x and of y_stride in y.
C15_StrideSampling ==
  \A k \in 1 .. Len(emitted) :
    /\ emitted[k][1] % fbl_args.x_stride = 0
    /\ emitted[k][2] % fbl_args.y_stride = 0
    /\ ReturnedSpots[k][1] - half_width = 2 * (x_min + emitted[k][1])
    /\ ReturnedSpots[k][2] - half_width = 2 * (y_min + emitted[k][2])

C15_Witness ==
  /\ PlaceReturned
  /\ fbl_args.x_stride = 2
  /\ fbl_args.y_stride = 2
  /\ \E k \in 1 .. Len(emitted) : emitted[k][1] = 2 /\ emitted[k][2] = 2

\* C16: the call returns the empty list, without an error, when no window
\* inside the bounds is fully unblocked, and a non-empty list when a window of the
\* stride grid is fully unblocked.
C16_EmptyOrFound ==
  /\ (fbl_status \notin {"start", "scan"}
        /\ \A i \in 0 .. AreaW + 1, j \in 0 .. AreaH + 1 : ~Qualifies(i, j))
       => (PlaceReturned /\ ReturnedSpots = <<>>)
  /\ (fbl_status \notin {"start", "scan"}
        /\ \E i \in StrideColumns, j \in StrideRows : Qualifies(i, j))
       => (PlaceReturned /\ ReturnedSpots # <<>>)

(***************************************************************************)
(* Power coverage (cy_pylon_matrix_covers).  Positions are doubles with    *)
(* halves: the model keeps them in half tiles, so int(position[0]) is a    *)
(* division by 2 and the squared distance is 4 times the code's.           *)
(* build_progress and its threshold are kept in halves as well (2 = 1.0).  *)
(***************************************************************************)
\* ---- bounds of the coverage inputs ----
MaxPylons == 2

\* double pylon_powered_distance = 42.25, times 4
pylon_powered_distance == 169

\* int(position[0]), int(position[1])
TileOf(position) == <<position[1] \div 2, position[2] \div 2>>

\* cy_distance_to_squared, times 4
cy_distance_to_squared(p1, p2) ==
  (p1[1] - p2[1]) * (p1[1] - p2[1]) + (p1[2] - p2[2]) * (p1[2] - p2[2])

\* slip: a pylon at the edge of the radius still powers
InPowerRange_inclusive(position, pylon_position) ==
  cy_distance_to_squared(position, pylon_position) <= pylon_powered_distance

\* line 50
InPowerRange(position, pylon_position) ==
  cy_distance_to_squared(position, pylon_position) < pylon_powered_distance

\* lines 47-51: the test on pylons[i] (i counted from 1)
PylonPowers(args, i) ==
  LET pylon == args.pylons[i]
      position_height == args.height_grid[TileOf(args.position)]
      pylon_height == args.height_grid[TileOf(pylon.position)]
  IN /\ pylon.build_progress >= args.pylon_build_progress
     /\ pylon_height >= position_height
     /\ InPowerRange(args.position, pylon.position)

\* lines 41-54: the loop from pylons[i] on
RECURSIVE PylonLoop(_, _)
PylonLoop(args, i) ==
  IF i > Len(args.pylons) THEN FALSE
  ELSE IF PylonPowers(args, i) THEN TRUE
  ELSE PylonLoop(args, i + 1)

\* slip: the loop gives its answer on the first pylon
cy_pylon_matrix_covers_first_only(args) ==
  Len(args.pylons) > 0 /\ PylonPowers(args, 1)

cy_pylon_matrix_covers(args) == PylonLoop(args, 1)

\* ---- the inputs: the position in the corner tile, pylons 6.0, 6.5 and
\* 7.0 away along x and one 6.5 away across the diagonal ----
CoverPosition == <<1, 1>>

PylonPositions == {<<13, 1>>, <<14, 1>>, <<15, 1>>, <<13, 6>>}

Pylons == [position : PylonPositions, build_progress : {1, 2}]

RECURSIVE PylonLists(_)
PylonLists(n) ==
  IF n = 0 THEN {<<>>}
  ELSE LET L == PylonLists(n - 1)
       IN L \cup {Append(l, q) : l \in {m \in L : Len(m) = n - 1}, q \in Pylons}

\* flat ground of height 5, or the position's tile one step above or below it
HeightGrids ==
  {[t \in Grid(8, 4) |-> IF t = TileOf(CoverPosition) THEN h ELSE 5] : h \in {4, 5, 6}}

CoverInit ==
  /\ cover_args \in [position : {CoverPosition},
                     pylons : PylonLists(MaxPylons),
                     height_grid : HeightGrids,
                     pylon_build_progress : {1, 2}]
  /\ covers = <<>>
  /\ covered_before = <<>>
  /\ FillIdle
  /\ PlaceIdle
  /\ PointsIdle
  /\ LaterIdle

\* ---- one call: lines 22-54 ----
CallCovers ==
  /\ cover_args # <<>>
  /\ covers = <<>>
  /\ covers' = <<cy_pylon_matrix_covers(cover_args)>>
  /\ UNCHANGED <<cover_args, covered_before, fillVars, placeVars, pointVars, laterVars>>

InsertAt(seq, k, e) == SubSeq(seq, 1, k - 1) \o <<e>> \o SubSeq(seq, k, Len(seq))

\* ---- the caller adds a pylon at any index and asks again ----
AddPylon ==
  /\ covers # <<>>
  /\ covered_before = <<>>
  /\ \E q \in Pylons, k \in 1 .. Len(cover_args.pylons) + 1 :
       /\ cover_args' = [cover_args EXCEPT !.pylons = InsertAt(@, k, q)]
       /\ covered_before' = <<[change |-> "added", at |-> k, value |-> covers[1]]>>
  /\ covers' = <<>>
  /\ UNCHANGED <<fillVars, placeVars, pointVars, laterVars>>

\* ---- the caller passes the same pylons in another order and asks again ----
ReorderPylons ==
  /\ covers # <<>>
  /\ covered_before = <<>>
  /\ \E f \in Permutations(DOMAIN cover_args.pylons) :
       /\ \E k \in DOMAIN cover_args.pylons : f[k] # k
       /\ cover_args' = [cover_args EXCEPT !.pylons = [k \in DOMAIN @ |-> @[f[k]]]]
       /\ covered_before' = <<[change |-> "reordered", at |-> 0, value |-> covers[1]]>>
  /\ covers' = <<>>
  /\ UNCHANGED <<fillVars, placeVars, pointVars, laterVars>>

CoverNext ==
  \/ CallCovers
  \/ AddPylon
  \/ ReorderPylons

SpecCover == CoverInit /\ [][CoverNext]_vars

\* ---- vocabulary of the coverage properties ----
PylonIndices == 1 .. Len(cover_args.pylons)

PositionHeight == cover_args.height_grid[TileOf(cover_args.position)]

\* 4 times the squared distance from the position to pylon k
DistSq4(k) ==
  LET d == <<cover_args.pylons[k].position[1] - cover_args.position[1],
             cover_args.pylons[k].position[2] - cover_args.position[2]>>
  IN d[1] * d[1] + d[2] * d[2]

\* C17: the call returns true iff some pylon has build_progress >= threshold,
\* stands on ground at least as high as the position and is strictly closer than
\* 6.5; so false for no pylons, false at 6.5 and 7.0, true at 6.0 on equal height,
\* false when the position is strictly higher than every pylon.
C17_CoversIff ==
  covers # <<>> =>
    /\ covers[1] =
         \E k \in PylonIndices :
           /\ cover_args.pylons[k].build_progress >= cover_args.pylon_build_progress
           /\ cover_args.height_grid[TileOf(cover_args.pylons[k].position)] >= PositionHeight
           /\ DistSq4(k) < 13 * 13
    /\ cover_args.pylons = <<>> => ~covers[1]
    /\ (\A k \in PylonIndices : DistSq4(k) \in {13 * 13, 14 * 14}) => ~covers[1]
    /\ (\E k \in PylonIndices :
          /\ DistSq4(k) = 12 * 12
          /\ cover_args.pylons[k].build_progress = 2
          /\ cover_args.height_grid[TileOf(cover_args.pylons[k].position)] = PositionHeight)
         => covers[1]
    /\ (\A k \in PylonIndices :
          cover_args.height_grid[TileOf(cover_args.pylons[k].position)] < PositionHeight)
         => ~covers[1]

C17_Witness ==
  /\ covers = <<TRUE>>
  /\ Len(cover_args.pylons) = 2
  /\ DistSq4(1) = 13 * 13
  /\ DistSq4(2) = 12 * 12

\* C18: a position that is powered stays powered when a pylon is added at
\* any index, and the answer does not depend on the order of the pylons.
C18_Monotone ==
  (covers # <<>> /\ covered_before # <<>>) =>
    /\ (covered_before[1].change = "added" /\ covered_before[1].value) => covers[1]
    /\ covered_before[1].change = "reordered" => covers[1] = covered_before[1].value

C18_Witness ==
  /\ covers = <<TRUE>>
  /\ covered_before # <<>>
  /\ covered_before[1].change = "added"
  /\ covered_before[1].at = 1
  /\ covered_before[1].value
  /\ DistSq4(1) >= 13 * 13

(***************************************************************************)
(* Grid queries over a list of points (numpy_helper.pyx).  A grid is keyed *)
(* by <<first index, second index>>: grid[y][x] is grid[<<y, x>>].  A cell *)
(* of the float32 grid is a record, so that np.inf is a value of its own.  *)
(***************************************************************************)
\* ---- bounds of the query inputs ----
MaxPoints == 3

Finite(v) == [inf |-> FALSE, v |-> v]

Infinite == [inf |-> TRUE, v |-> 0]

\* line 78: np.inf > cell > max_value
AboveMax(cell, max_value) == ~cell.inf /\ cell.v > max_value

\* slip: an empty list is not told apart
NoPoints_never(points) == FALSE

\* line 93 of cy_all_points_have_value, line 19 of cy_last_index_with_value
NoPoints(points) == Len(points) = 0

\* slip: the index of the mismatch itself is returned
AtMismatch_same(last_valid_idx) == last_valid_idx

\* line 26: return last_valid_idx - 1
AtMismatch(last_valid_idx) == last_valid_idx - 1

\* lines 22-27, from index last_valid_idx (counted from 0) on
RECURSIVE LastIndexLoop(_, _)
LastIndexLoop(args, last_valid_idx) ==
  IF last_valid_idx = Len(args.points) THEN last_valid_idx - 1
  ELSE LET x == args.points[last_valid_idx + 1][1]
           y == args.points[last_valid_idx + 1][2]
       IN IF args.grid[<<y, x>>] # args.value THEN AtMismatch(last_valid_idx)
          ELSE LastIndexLoop(args, last_valid_idx + 1)

last_index_with_value(args) ==
  IF NoPoints(args.points) THEN -1 ELSE LastIndexLoop(args, 0)

\* lines 75-81, from the k-th point on
RECURSIVE BelowMaxLoop(_, _)
BelowMaxLoop(args, k) ==
  IF k > Len(args.points) THEN TRUE
  ELSE LET x == args.points[k][1]
           y == args.points[k][2]
       IN IF AboveMax(args.grid[<<x, y>>], args.value) THEN FALSE
          ELSE BelowMaxLoop(args, k + 1)

all_points_below_max_value(args) == BelowMaxLoop(args, 1)

\* lines 96-101, from the k-th point on
RECURSIVE HaveValueLoop(_, _)
HaveValueLoop(args, k) ==
  IF k > Len(args.points) THEN TRUE
  ELSE LET x == args.points[k][1]
           y == args.points[k][2]
       IN IF args.grid[<<y, x>>] # args.value THEN FALSE
          ELSE HaveValueLoop(args, k + 1)

all_points_have_value(args) ==
  IF NoPoints(args.points) THEN FALSE ELSE HaveValueLoop(args, 1)

\* ---- the inputs ----
RECURSIVE PointLists(_)
PointLists(n) ==
  IF n = 0 THEN {<<>>}
  ELSE LET L == PointLists(n - 1)
       IN L \cup {Append(l, q) : l \in {m \in L : Len(m) = n - 1}, q \in Grid(2, 2)}

ByteGrid == (<<0, 0>> :> 1) @@ (<<0, 1>> :> 1) @@ (<<1, 0>> :> 0) @@ (<<1, 1>> :> 2)

FloatGrid ==
  (<<0, 0>> :> Finite(1)) @@ (<<0, 1>> :> Finite(2)) @@ (<<1, 0>> :> Infinite)
    @@ (<<1, 1>> :> Finite(3))

PointsInit ==
  /\ \E fn \in {"last_index_with_value", "all_points_below_max_value",
                "all_points_have_value"},
        value \in 0 .. 2, points \in PointLists(MaxPoints) :
       points_args = [fn |-> fn,
                      grid |-> IF fn = "all_points_below_max_value"
                               THEN FloatGrid ELSE ByteGrid,
                      value |-> value,
                      points |-> points]
  /\ points_result = <<>>
  /\ filter = <<>>
  /\ FillIdle
  /\ PlaceIdle
  /\ CoverIdle
  /\ LaterIdle

\* ---- numpy_helper.pyx lines 8-27 ----
cy_last_index_with_value ==
  /\ points_args # <<>>
  /\ points_args.fn = "last_index_with_value"
  /\ points_result = <<>>
  /\ points_result' = <<last_index_with_value(points_args)>>
  /\ UNCHANGED <<points_args, filter, fillVars, placeVars, coverVars, laterVars>>

\* ---- numpy_helper.pyx lines 66-81 ----
cy_all_points_below_max_value ==
  /\ points_args # <<>>
  /\ points_args.fn = "all_points_below_max_value"
  /\ points_result = <<>>
  /\ points_result' = <<all_points_below_max_value(points_args)>>
  /\ UNCHANGED <<points_args, filter, fillVars, placeVars, coverVars, laterVars>>

\* ---- numpy_helper.pyx lines 84-101 ----
cy_all_points_have_value ==
  /\ points_args # <<>>
  /\ points_args.fn = "all_points_have_value"
  /\ points_result = <<>>
  /\ points_result' = <<all_points_have_value(points_args)>>
  /\ UNCHANGED <<points_args, filter, fillVars, placeVars, coverVars, laterVars>>

PointsNext ==
  \/ cy_last_index_with_value
  \/ cy_all_points_below_max_value
  \/ cy_all_points_have_value

SpecPoints == PointsInit /\ [][PointsNext]_vars

\* ---- vocabulary of the query properties ----
Answered(fn) == points_args.fn = fn /\ points_result # <<>>

\* the point at index k (counted from 0) has the value asked for
Matches(k) ==
  points_args.grid[<<points_args.points[k + 1][2], points_args.points[k + 1][1]>>]
    = points_args.value

\* C19 as stated: both universal tests answer false on an empty list.
C19_BothFalseOnEmpty ==
  points_args.points = <<>> =>
    /\ Answered("all_points_have_value") => points_result[1] = FALSE
    /\ Answered("all_points_below_max_value") => points_result[1] = FALSE

\* C19 amended: on an empty list all_points_have_value answers false and
\* all_points_below_max_value answers true.
C19_EmptyPolicy ==
  points_args.points = <<>> =>
    /\ Answered("all_points_have_value") => points_result[1] = FALSE
    /\ Answered("all_points_below_max_value") => points_result[1] = TRUE

C19_Witness ==
  /\ points_args.points = <<>>
  /\ Answered("all_points_below_max_value")
  /\ points_result = <<TRUE>>

\* C20: last_index_with_value returns the end r of the matching prefix:
\* points 0..r match, r is the last index or point r+1 does not match; r = -1
\* exactly when the list is empty or its first point does not match.
C20_MatchingPrefix ==
  Answered("last_index_with_value") =>
    LET r == points_result[1]
        n == Len(points_args.points)
    IN /\ r \in -1 .. n - 1
       /\ \A k \in 0 .. r : Matches(k)
       /\ r = n - 1 \/ ~Matches(r + 1)
       /\ r = -1 <=> (n = 0 \/ ~Matches(0))

C20_Witness ==
  /\ Answered("last_index_with_value")
  /\ Len(points_args.points) = 3
  /\ Matches(0)
  /\ ~Matches(1)
  /\ Matches(2)
  /\ points_result = <<0>>

(***************************************************************************)
(* Bounding box of a set of points (units_utils.pyx: cy_get_bounding_box). *)
(* The loop takes the points out of the caller's set with set.pop(), in    *)
(* whatever order the set yields them: one action per pass, any element.   *)
(***************************************************************************)
\* ---- bounds of the bounding-box inputs ----
MaxCoords == 2

\* float x_min = 9999.0, float y_min = 9999.0
min_start == 9999

\* float x_max = 0.0, float y_max = 0.0
max_start == 0

\* lines 147-148, 151-152
Lower(current, val) == IF val < current THEN val ELSE current

\* slip: the comparison is left out, the last value wins
Raise_always(current, val) == val

\* lines 149-150, 153-154
Raise(current, val) == IF val > current THEN val ELSE current

\* ---- the inputs: coordinates below 0, inside the map and above 9999 ----
CoordValues == {-2, 1, 3, 10001}

BoxInit ==
  /\ given_coordinates \in SmallSubsets(CoordValues \X CoordValues, MaxCoords)
  /\ coordinates = given_coordinates
  /\ bbox = [x_min |-> min_start, x_max |-> max_start,
             y_min |-> min_start, y_max |-> max_start,
             i |-> 0, stop |-> Cardinality(given_coordinates),
             status |-> "running"]
  /\ FillIdle
  /\ PlaceIdle
  /\ CoverIdle
  /\ PointsIdle
  /\ UnitsIdle
  /\ CpsIdle

\* ---- lines 143-154: one pass of the loop ----
PopCoordinate ==
  /\ bbox # <<>>
  /\ bbox.status = "running"
  /\ bbox.i < bbox.stop
  /\ \E position \in coordinates :
       /\ coordinates' = coordinates \ {position}
       /\ bbox' = [bbox EXCEPT !.x_min = Lower(@, position[1]),
                               !.x_max = Raise(@, position[1]),
                               !.y_min = Lower(@, position[2]),
                               !.y_max = Raise(@, position[2]),
                               !.i = @ + 1]
  /\ UNCHANGED <<given_coordinates, fillVars, placeVars, coverVars, pointVars,
                 unitVars, cpsVars>>

\* ---- line 155: return (x_min, x_max), (y_min, y_max) ----
ReturnBox ==
  /\ bbox # <<>>
  /\ bbox.status = "running"
  /\ bbox.i = bbox.stop
  /\ bbox' = [bbox EXCEPT !.status = "returned"]
  /\ UNCHANGED <<coordinates, given_coordinates, fillVars, placeVars, coverVars,
                 pointVars, unitVars, cpsVars>>

BoxNext ==
  \/ PopCoordinate
  \/ ReturnBox

SpecBox == BoxInit /\ [][BoxNext]_vars

\* ---- vocabulary of the bounding-box properties ----
BoxReturned == bbox # <<>> /\ bbox.status = "returned"

Xs == {c[1] : c \in given_coordinates}

Ys == {c[2] : c \in given_coordinates}

MinOf(S) == CHOOSE m \in S : \A v \in S : m <= v

MaxOf(S) == CHOOSE m \in S : \A v \in S : m >= v

\* C21 as stated: for a non-empty set the result is exactly
\* ((min x, max x), (min y, max y)).
C21_ExactMinMax ==
  (BoxReturned /\ given_coordinates # {}) =>
    /\ bbox.x_min = MinOf(Xs)
    /\ bbox.x_max = MaxOf(Xs)
    /\ bbox.y_min = MinOf(Ys)
    /\ bbox.y_max = MaxOf(Ys)

\* C21 amended: the result is ((min(9999, min x), max(0, max x)),
\* (min(9999, min y), max(0, max y))): every point lies inside it, and it is the
\* exact min/max when all coordinates lie in 0 .. 9999.
C21_ClampedMinMax ==
  (BoxReturned /\ given_coordinates # {}) =>
    /\ bbox.x_min = MinOf(Xs \cup {9999})
    /\ bbox.x_max = MaxOf(Xs \cup {0})
    /\ bbox.y_min = MinOf(Ys \cup {9999})
    /\ bbox.y_max = MaxOf(Ys \cup {0})
    /\ \A c \in given_coordinates :
         /\ bbox.x_min <= c[1] /\ c[1] <= bbox.x_max
         /\ bbox.y_min <= c[2] /\ c[2] <= bbox.y_max
    /\ (Xs \cup Ys) \subseteq 0 .. 9999 =>
         /\ bbox.x_min = MinOf(Xs) /\ bbox.x_max = MaxOf(Xs)
         /\ bbox.y_min = MinOf(Ys) /\ bbox.y_max = MaxOf(Ys)

C21_Witness ==
  /\ BoxReturned
  /\ given_coordinates = {<<-2, 1>>, <<-2, 3>>}
  /\ bbox.x_min = -2
  /\ bbox.x_max = 0
  /\ bbox.y_min = 1
  /\ bbox.y_max = 3

\* C22: after the call the caller's set holds the same points as before.
C22_InputUntouched ==
  BoxReturned => coordinates = given_coordinates

(***************************************************************************)
(* numpy_helper.pyx: cy_points_with_value, the points of a list whose grid *)
(* value is the one asked for, collected in a C array of 2000 pairs.       *)
(***************************************************************************)
\* (int, int) [2000] valid_points
valid_points_slots == 2000

\* ---- the inputs: the short lists, and lists around 2000 points long ----
LongLists ==
  {[k \in 1 .. n |-> IF k = 1 THEN first ELSE <<0, 0>>] :
     n \in {valid_points_slots, valid_points_slots + 1},
     first \in {<<0, 0>>, <<1, 0>>}}

FilterInit ==
  /\ \E value \in 0 .. 2, points \in PointLists(MaxPoints) \cup LongLists :
       /\ Len(points) > MaxPoints + 1 => value = 1
       /\ points_args = [fn |-> "points_with_value",
                         grid |-> ByteGrid,
                         value |-> value,
                         points |-> points]
  /\ points_result = <<>>
  /\ filter = [i |-> 0, idx |-> 0, valid_points |-> <<>>, broke |-> FALSE]
  /\ FillIdle
  /\ PlaceIdle
  /\ CoverIdle
  /\ LaterIdle

\* line 62: if idx >= 2000
BufferFull(idx) == idx >= valid_points_slots

\* ---- lines 56-63: one pass of the loop ----
FilterPoint ==
  /\ points_args # <<>>
  /\ points_args.fn = "points_with_value"
  /\ points_result = <<>>
  /\ ~filter.broke
  /\ filter.i < Len(points_args.points)
  /\ LET x == points_args.points[filter.i + 1][1]
         y == points_args.points[filter.i + 1][2]
     IN IF points_args.grid[<<y, x>>] = points_args.value
        THEN filter' = [i |-> filter.i + 1,
                        idx |-> filter.idx + 1,
                        valid_points |-> Append(filter.valid_points, <<x, y>>),
                        broke |-> BufferFull(filter.idx + 1)]
        ELSE filter' = [filter EXCEPT !.i = @ + 1]
  /\ UNCHANGED <<points_args, points_result, fillVars, placeVars, coverVars, laterVars>>

\* ---- line 64: return list(valid_points)[:idx] ----
ReturnValidPoints ==
  /\ points_args # <<>>
  /\ points_args.fn = "points_with_value"
  /\ points_result = <<>>
  /\ filter.broke \/ filter.i = Len(points_args.points)
  /\ points_result' = <<SubSeq(filter.valid_points, 1, filter.idx)>>
  /\ UNCHANGED <<points_args, filter, fillVars, placeVars, coverVars, laterVars>>

FilterNext ==
  \/ FilterPoint
  \/ ReturnValidPoints

SpecFilter == FilterInit /\ [][FilterNext]_vars

\* the points of the list that have the value asked for, in the list's order
MatchingPoints ==
  LET HasValue(pt) == points_args.grid[<<pt[2], pt[1]>>] = points_args.value
  IN SelectSeq(points_args.points, HasValue)

\* C23: points_with_value returns the matching points of the list, each as
\* often as it occurs and in the list's order, whatever the length of the list.
C23_AllMatchingPoints ==
  Answered("points_with_value") => points_result[1] = MatchingPoints

(***************************************************************************)
(* Picking one unit of a collection: cy_closest_to (units_utils.pyx) and   *)
(* cy_pick_enemy_target (combat_utils.pyx).  Both compare against a start  *)
(* value of 999.9; the model keeps the compared quantities in tenths.      *)
(***************************************************************************)
\* ---- bounds of the unit collections ----
MaxUnits == 2

\* double closest_dist = 999.9, in tenths
closest_dist_start == 9999

\* lowest_health = 999.9, in tenths
lowest_health_start == 9999

\* lines 51-57 of cy_closest_to, from units[i] (counted from 1) on; the
\* pair is <<closest, closest_dist>>
RECURSIVE ClosestLoop(_, _, _)
ClosestLoop(args, i, best) ==
  IF i > Len(args.units) THEN best
  ELSE LET unit == args.units[i]
           dist == 10 * cy_distance_to_squared(unit.position, args.position)
       IN IF dist < best[2] THEN ClosestLoop(args, i + 1, <<unit, dist>>)
          ELSE ClosestLoop(args, i + 1, best)

\* lines 45-59: closest = units[0] ... return closest
closest_to(args) == ClosestLoop(args, 1, <<args.units[1], closest_dist_start>>)[1]

\* lines 148-153 of cy_pick_enemy_target, from enemies[x] (counted from 1)
\* on; the triple is <<returned_unit, lowest_health, unit>>
RECURSIVE PickLoop(_, _, _)
PickLoop(args, x, best) ==
  IF x > Len(args.units) THEN best
  ELSE LET unit == args.units[x]
           total_health == 10 * (unit.health + unit.shield)
       IN IF total_health < best[2]
          THEN PickLoop(args, x + 1, <<unit, total_health, unit>>)
          ELSE PickLoop(args, x + 1, <<best[1], best[2], unit>>)

\* lines 145-155: returned_unit = enemies[0] ... return unit
pick_enemy_target(args) ==
  PickLoop(args, 1, <<args.units[1], lowest_health_start, args.units[1]>>)[3]

\* ---- the inputs: units 3, about 30.3, 32 and 40 away from the position,
\* with health + shield of 40, 50, 990 and 1000 ----
Units == [position : {<<3, 0>>, <<30, 4>>, <<32, 0>>, <<40, 0>>},
          health : {40, 990},
          shield : {0, 10}]

RECURSIVE UnitLists(_)
UnitLists(n) ==
  IF n = 1 THEN {<<u>> : u \in Units}
  ELSE LET L == UnitLists(n - 1)
       IN L \cup {Append(l, u) : l \in {m \in L : Len(m) = n - 1}, u \in Units}

UnitsInit ==
  /\ units_args \in [fn : {"closest_to", "pick_enemy_target"},
                     position : {<<0, 0>>},
                     units : UnitLists(MaxUnits)]
  /\ units_result = <<>>
  /\ FillIdle
  /\ PlaceIdle
  /\ CoverIdle
  /\ PointsIdle
  /\ BoxIdle
  /\ CpsIdle

\* ---- units_utils.pyx lines 34-59 ----
cy_closest_to ==
  /\ units_args # <<>>
  /\ units_args.fn = "closest_to"
  /\ units_result = <<>>
  /\ units_result' = <<closest_to(units_args)>>
  /\ UNCHANGED <<units_args, fillVars, placeVars, coverVars, pointVars, boxVars,
                 cpsVars>>

\* ---- combat_utils.pyx lines 133-155 ----
cy_pick_enemy_target ==
  /\ units_args # <<>>
  /\ units_args.fn = "pick_enemy_target"
  /\ units_result = <<>>
  /\ units_result' = <<pick_enemy_target(units_args)>>
  /\ UNCHANGED <<units_args, fillVars, placeVars, coverVars, pointVars, boxVars,
                 cpsVars>>

UnitsNext ==
  \/ cy_closest_to
  \/ cy_pick_enemy_target

SpecUnits == UnitsInit /\ [][UnitsNext]_vars

\* ---- vocabulary of the unit properties ----
Picked(fn) == units_args # <<>> /\ units_args.fn = fn /\ units_result # <<>>

UnitSet == {units_args.units[k] : k \in 1 .. Len(units_args.units)}

DistSq(u) ==
  (u.position[1] - units_args.position[1]) * (u.position[1] - units_args.position[1])
    + (u.position[2] - units_args.position[2]) * (u.position[2] - units_args.position[2])

\* C27: cy_closest_to returns a unit of the collection that no other unit
\* of the collection is closer than, however far away the units are.
C27_ClosestUnit ==
  Picked("closest_to") =>
    /\ units_result[1] \in UnitSet
    /\ \A u \in UnitSet : DistSq(units_result[1]) <= DistSq(u)

\* C28: cy_pick_enemy_target returns an enemy of the collection whose
\* health + shield no other enemy's is below, wherever it stands in the collection.
C28_LowestHealth ==
  Picked("pick_enemy_target") =>
    /\ units_result[1] \in UnitSet
    /\ \A u \in UnitSet :
         units_result[1].health + units_result[1].shield <= u.health + u.shield

(***************************************************************************)
(* can_place_structure (part_006 lines 10-41): the test of one footprint   *)
(* against the placement, creep and pathing grids.  Grids are indexed      *)
(* [row, column] in the code; the model writes a tile as <<column, row>>.  *)
(***************************************************************************)
\* ---- bound of the structure sizes; the map has one tile more each way ----
MaxSize == 3

\* line 30: unsigned int creep_check = 1 if avoid_creep else 0
cps_creep_check(args) == IF args.avoid_creep THEN 1 ELSE 0

\* lines 35-40 with the loop variables i and j: the tile read is
\* [y + j, x + i], column x + i of row y + j
TileRejected(args, i, j) ==
  LET tile == <<args.building_origin[1] + i, args.building_origin[2] + j>>
  IN \/ args.placement_grid[tile] = 0
     \/ args.creep_grid[tile] = cps_creep_check(args)
     \/ args.pathing_grid[tile] = 0

\* lines 33-41: i runs over range(size_y), j over range(size_x)
can_place_structure(args) ==
  \A i \in 0 .. args.building_size[2] - 1 :
    \A j \in 0 .. args.building_size[1] - 1 : ~TileRejected(args, i, j)

\* ---- the inputs: a map on which every tile passes, or all but one tile
\* in one of the three grids ----
CpsMap == Grid(MaxSize + 1, MaxSize + 1)

Defects == {"none", "placement", "creep", "pathing"}

CpsGrid(kind, defect, at, avoid) ==
  [t \in CpsMap |->
     IF kind = "creep"
     THEN (IF defect = "creep" /\ t = at
           THEN (IF avoid THEN 1 ELSE 0)
           ELSE (IF avoid THEN 0 ELSE 1))
     ELSE (IF defect = kind /\ t = at THEN 0 ELSE 1)]

CpsInit ==
  /\ \E origin \in {<<0, 0>>, <<1, 1>>}, size \in (1 .. MaxSize) \X (1 .. MaxSize),
        avoid \in BOOLEAN, defect \in Defects, at \in CpsMap :
       /\ defect = "none" => at = <<0, 0>>
       /\ cps_args = [building_origin |-> origin,
                      building_size |-> size,
                      creep_grid |-> CpsGrid("creep", defect, at, avoid),
                      placement_grid |-> CpsGrid("placement", defect, at, avoid),
                      pathing_grid |-> CpsGrid("pathing", defect, at, avoid),
                      avoid_creep |-> avoid]
  /\ cps_result = <<>>
  /\ FillIdle
  /\ PlaceIdle
  /\ CoverIdle
  /\ PointsIdle
  /\ BoxIdle
  /\ UnitsIdle

\* ---- part_006 lines 10-41 ----
CanPlaceStructure ==
  /\ cps_args # <<>>
  /\ cps_result = <<>>
  /\ cps_result' = <<can_place_structure(cps_args)>>
  /\ UNCHANGED <<cps_args, fillVars, placeVars, coverVars, pointVars, boxVars,
                 unitVars>>

CpsNext == CanPlaceStructure

SpecCps == CpsInit /\ [][CpsNext]_vars

\* ---- vocabulary of the footprint property ----
CpsReturned == cps_args # <<>> /\ cps_result # <<>>

\* the tiles (x + dx, y + dy), 0 <= dx < size_x, 0 <= dy < size_y
StructureTiles ==
  {<<cps_args.building_origin[1] + dx, cps_args.building_origin[2] + dy>> :
     dx \in 0 .. cps_args.building_size[1] - 1,
     dy \in 0 .. cps_args.building_size[2] - 1}

Placeable(t) ==
  /\ cps_args.placement_grid[t] # 0
  /\ cps_args.pathing_grid[t] # 0
  /\ cps_args.creep_grid[t] = (IF cps_args.avoid_creep THEN 0 ELSE 1)

\* C26: can_place_structure answers true exactly when every tile of the
\* size_x by size_y footprint at the origin is buildable, walkable and has
\* the wanted creep value, for square and non-square sizes.
C26_WholeFootprint ==
  CpsReturned => (cps_result[1] <=> \A t \in StructureTiles : Placeable(t))

(***************************************************************************)
(* The start tile of a flood fill (flood_fill.pyx lines 15-28, 42-58).     *)
(***************************************************************************)
\* C29: the start tile is in the returned region exactly when its terrain
\* class is non-zero and it is no chokepoint; a chokepoint start gives the
\* empty region, an admissible start a non-empty one for every
\* max_distance >= 0.
C29_StartMembership ==
  Returned =>
    /\ start_point \in filled_points
         <=> (terrain_grid[start_point] # 0 /\ start_point \notin choke_points)
    /\ start_point \in choke_points => filled_points = {}
    /\ (terrain_grid[start_point] # 0 /\ start_point \notin choke_points)
         => filled_points # {}

\* a returned empty region for a chokepoint start of non-zero class with
\* max_distance > 0 and a neighbour of the same class that is no chokepoint
C29_Witness ==
  /\ Returned
  /\ start_point \in choke_points
  /\ terrain_grid[start_point] # 0
  /\ max_distance > 0
  /\ filled_points = {}
  /\ \E t \in DOMAIN terrain_grid :
       /\ PlaneAdjacent(t, start_point)
       /\ terrain_grid[t] = terrain_grid[start_point]
       /\ t \notin choke_points

(***************************************************************************)
(* The scan of find_building_locations across scan lines (part_006 lines   *)
(* 81-101).                                                                *)
(***************************************************************************)
IsPlaceScenario ==
  /\ fbl_args # <<>>
  /\ fbl_args.x_bounds = <<0, 5>>
  /\ fbl_args.y_bounds = <<0, 5>>
  /\ fbl_args.building_width = 2
  /\ fbl_args.building_height = 2

\* a step of the scan that passes the window at (scan.i, scan.j)
Scanned == fbl_status = "scan" /\ scan' # scan

\* the origins that the step emits
NewlyEmitted == {emitted'[k] : k \in Len(emitted) + 1 .. Len(emitted')}

\* once withheld, a y-offset stays withheld and is never emitted again,
\* on this scan line or a later one
WithheldPersist ==
  /\ blocked_y \subseteq blocked_y'
  /\ \A o \in NewlyEmitted : o[2] \notin blocked_y'

\* passing a skipped window on a scan line leaves the per-line counter as it was
SkipKeepsCounter ==
  (Scanned /\ scan.j \in blocked_y /\ scan'.i = scan.i)
    => found_this_many_on_y' = found_this_many_on_y

\* the counter is 0 whenever a scan line begins
CounterRestarts ==
  (Scanned /\ scan'.i # scan.i) => found_this_many_on_y' = 0

\* y-offsets 0, 1, 2, 4 on the first line and 0, 1, 2 on the other four
ScenarioOrigins ==
  {<<0, j>> : j \in {0, 1, 2, 4}} \cup {<<i, j>> : i \in 1 .. 4, j \in {0, 1, 2}}

\* C24: withheld y-offsets persist across scan lines, a skipped window does
\* not advance the per-line counter, the counter restarts at 0 on each line;
\* on the fully clear 6x6 area with a 2x2 footprint and strides 1 the call
\* returns exactly 16 candidates, at y-offsets 0, 1, 2, 4 on the first line
\* and 0, 1, 2 on each of the other four.
C24_GapsAcrossLines ==
  /\ [][WithheldPersist /\ SkipKeepsCounter /\ CounterRestarts]_vars
  /\ []((IsPlaceScenario /\ PlaceReturned)
          => (Emitted = ScenarioOrigins /\ Len(ReturnedSpots) = 16))

C24_Witness ==
  /\ IsPlaceScenario
  /\ PlaceReturned
  /\ Len(ReturnedSpots) = 16
  /\ blocked_y = {3, 4}
  /\ <<0, 4>> \in Emitted
  /\ <<1, 4>> \notin Emitted

(***************************************************************************)
(* The valid_spots buffer of find_building_locations (part_006 lines 74,   *)
(* 103-114) on a long search area.                                         *)
(***************************************************************************)
\* ---- bounds of the long search area ----
LongW == 170
LongH == 3

\* a fully clear LongW x LongH area, 1x1 footprint, both strides 1
LongInit ==
  /\ fbl_args =
       [kernel |-> Ones(1, 1),
        x_stride |-> 1,
        y_stride |-> 1,
        x_bounds |-> <<0, LongW - 1>>,
        y_bounds |-> <<0, LongH - 1>>,
        creep_grid |-> [t \in Grid(LongW, LongH) |-> 0],
        placement_grid |-> [t \in Grid(LongW, LongH) |-> 1],
        pathing_grid |-> [t \in Grid(LongW, LongH) |-> 1],
        points_to_avoid_grid |-> [t \in Grid(LongW, LongH) |-> 0],
        building_width |-> 1,
        building_height |-> 1,
        avoid_creep |-> TRUE]
  /\ to_convolve = NoArray
  /\ result = NoArray
  /\ scan = [i |-> 0, j |-> 0]
  /\ found_this_many_on_y = 0
  /\ blocked_y = {}
  /\ valid_spots = <<>>
  /\ valid_idx = 0
  /\ fbl_status = "start"
  /\ emitted = <<>>
  /\ FillIdle
  /\ CoverIdle
  /\ PointsIdle
  /\ LaterIdle

SpecPlaceLong == LongInit /\ [][PlaceNext]_vars

\* C25: valid_idx is below 500 at every write into valid_spots, whatever
\* the bounds, strides and grids: no candidate is written past the end of the
\* buffer and none is dropped.
C25_WithinBuffer ==
  /\ fbl_status # "overrun"
  /\ valid_idx <= ValidSpotsSlots
  /\ Len(valid_spots) = valid_idx

\* the tiles whose cells line 86 reads: one per cell of the mask, at the
\* cell's offset from (x_min, y_min)
MaskReads ==
  {<<p[1] + x_min, p[2] + y_min>> : p \in DOMAIN to_convolve.at}

\* C30: the whole footprint of every returned candidate lies inside the
\* scanned rectangle x_min..x_max by y_min..y_max, and the mask is built
\* from the cells of that rectangle only.
C30_FootprintInsideBounds ==
  /\ fbl_status \notin {"idle", "start"}
       => MaskReads \subseteq Area(fbl_args.x_bounds, fbl_args.y_bounds)
  /\ PlaceReturned =>
       \A k \in 1 .. Len(ReturnedSpots) :
         FootprintTiles(ReturnedSpots[k])
           \subseteq Area(fbl_args.x_bounds, fbl_args.y_bounds)
====
